---- MODULE Spec2Model ----
(***************************************************************************)
(* The news search screen (NewsPage) and its News Client (newsAPI.jsx).    *)
(*                                                                         *)
(* The component's state is the useState cells of NewsPage.  Every action  *)
(* is one synchronous block of a handler: the part of a handler up to its  *)
(* await, or the continuation that runs when the awaited call settles.     *)
(* A continuation works on the values its closure captured when the        *)
(* handler was invoked (isAdding, addedArticles, activeWorkspace), so each *)
(* request in flight carries those captured values.                        *)
(*                                                                         *)
(* Spec       : the screen as the user drives it; a handler runs only      *)
(*              through a control that is rendered and not disabled.       *)
(* SpecSearch : handleSearch invoked directly, at any time (its own guard  *)
(*              only), with the form and the categories request.           *)
(* FairSearch : SpecSearch, where every issued search request settles.     *)
(* SpecAdd    : handleAddToWorkspace invoked directly, for any article, at *)
(*              any time (its own guard only).                             *)
(***************************************************************************)
EXTENDS Integers, Sequences, FiniteSets, TLC

\* ---------------------------------------------------------------- bounds
MaxArticles == 2
MaxInFlight == 2
MaxTimers == 2

\* ------------------------------------------------------- program constants
PAGE_SIZE == 20
CLEAR_DELAY == 3000

MSG_EMPTY_QUERY == "Please enter a search query"
MSG_NO_RESULTS == "No news articles found. Try a different search query."
MSG_SEARCH_FAILED == "Failed to fetch news articles"
MSG_SEARCH_THREW == "An error occurred while fetching news. Please try again."
MSG_NO_WORKSPACE == "Please select a workspace first. Go to dashboard and select a workspace."
MSG_ADD_FAILED == "Failed to add article to workspace"

\* ------------------------------------------------------------ value domains
\* A query is a sequence of characters; " " is the whitespace character.
Chars == {" ", "a"}

RECURSIVE SeqsUpTo(_, _)
SeqsUpTo(S, n) ==
    IF n = 0 THEN {<<>>}
    ELSE LET shorter == SeqsUpTo(S, n - 1)
         IN  shorter \cup {Append(s, x) : s \in {t \in shorter : Len(t) = n - 1}, x \in S}

\* The queries typed: empty, blank, and a word padded on both sides.
Queries == { <<>>, <<" ">>, <<" ", "a", " ">> }
CategoryValues == {"", "business"}
Languages == {"en", "es"}

\* Articles as the backend supplies them; url may be empty (falsy).
Articles == { [url |-> "https://a", title |-> "A"],
              [url |-> "", title |-> "B"] }
ArticleLists == SeqsUpTo(Articles, MaxArticles)

\* The persisted active workspace: absent (null) or an object with a name.
NoWorkspace == [present |-> FALSE, name |-> ""]
Workspaces == { NoWorkspace, [present |-> TRUE, name |-> "ws"] }

\* What the transport (axios) does with one outbound call.
\*   ok      : a 2xx response with a body
\*   http    : a response with an error status and a body (error.response.data)
\*   network : no response; the transport error carries a message
\* A body is a JS value: an object (with the fields this screen reads, each
\* possibly missing), or null.
SearchServerMessage == "rate limit exceeded"
AddServerMessage == "duplicate entry"
TransportMessage == "Network Error"

SearchBodies ==
    { [null |-> FALSE, hasArticles |-> TRUE, articles |-> l] : l \in ArticleLists }
    \cup { [null |-> FALSE, hasArticles |-> FALSE, articles |-> <<>>],
           [null |-> TRUE, hasArticles |-> FALSE, articles |-> <<>>] }

\* An error value as the uniform result carries it: an object with or
\* without a truthy message field, or a string (the transport's message).
ErrorPayloads(serverMessage) ==
    { [isString |-> FALSE, hasMessage |-> TRUE, message |-> serverMessage, text |-> ""],
      [isString |-> FALSE, hasMessage |-> FALSE, message |-> "", text |-> ""] }

SearchOutcomes ==
    { [kind |-> "ok", body |-> b] : b \in SearchBodies }
    \cup { [kind |-> "http", payload |-> p] : p \in ErrorPayloads(SearchServerMessage) }
    \cup { [kind |-> "network", message |-> TransportMessage] }

\* ------------------------------------------------------------------- state
VARIABLES
    query, category, language,   \* the form's inputs
    articles,                    \* the article list held by the screen
    loading, error, successMessage,
    categories,
    addedArticles,               \* AddedSet
    activeWorkspace,
    isAdding,                    \* PendingMap: key -> BOOLEAN, partial
    searchReqs,                  \* search requests in flight
    addReqs,                     \* add requests in flight, with captured state
    catReq,                      \* the mount-time categories request is in flight
    timers,                      \* pending success-message clears, oldest first
    succeeded,                   \* history: keys whose add returned success
    lastCall,                    \* history: the outbound call the last step made
    lastReturn                   \* history: what a News Client operation called
                                 \* on its own was given and returned

vars == << query, category, language, articles, loading, error, successMessage,
           categories, addedArticles, activeWorkspace, isAdding, searchReqs,
           addReqs, catReq, timers, succeeded, lastCall, lastReturn >>

\* --------------------------------------------------------- pure functions
IsSpace(c) == c = " "

\* String.prototype.trim: drop leading and trailing whitespace.
RECURSIVE TrimLeft(_)
TrimLeft(s) ==
    IF s = <<>> THEN <<>>
    ELSE IF IsSpace(Head(s)) THEN TrimLeft(Tail(s)) ELSE s

RECURSIVE TrimRight(_)
TrimRight(s) ==
    IF s = <<>> THEN <<>>
    ELSE IF IsSpace(s[Len(s)]) THEN TrimRight(SubSeq(s, 1, Len(s) - 1)) ELSE s

\* Mutant of trim: the query is tested as typed.
trimOmitted(s) == s

trim(s) == TrimRight(TrimLeft(s))

\* category || null
NullCategory == "null"
\* Mutant of CategoryOrNull: the selected value is sent as it is.
CategoryAsSelected(c) == c

CategoryOrNull(c) == IF c = "" THEN NullCategory ELSE c

\* const articleKey = article.url || article.title
articleKey(article) == IF article.url # "" THEN article.url ELSE article.title

Keys == { articleKey(a) : a \in Articles }

\* isAdding[key], read as a condition (undefined is falsy)
Pending(map, key) == key \in DOMAIN map /\ map[key]

\* { ...map, [key]: flag }
Spread(map, key, flag) ==
    [k \in (DOMAIN map) \cup {key} |-> IF k = key THEN flag ELSE map[k]]

\* `"${article.title}" added to ${activeWorkspace.name} workspace!`
NoMessage == <<>>
AddedMessage(title, wsName) == << "\"", title, "\" added to ", wsName, " workspace!" >>

\* ---------------------------------------------------------- News Client
\* searchNews / getNewsCategories / addNewsToWorkspace: one outbound call,
\* its outcome turned into {success: true, data} or {success: false, error}.
NoBody == [null |-> TRUE, hasArticles |-> FALSE, articles |-> <<>>]
NoError == [isString |-> TRUE, hasMessage |-> FALSE, message |-> "", text |-> ""]

\* Mutant of UniformResult: a failure without a response reports no message.
UniformResultDropsTransportMessage(outcome) ==
    IF outcome.kind = "ok"
    THEN [success |-> TRUE, data |-> outcome.body, error |-> NoError]
    ELSE [success |-> FALSE, data |-> NoBody,
          error |-> IF outcome.kind = "http" THEN outcome.payload ELSE NoError]

UniformResult(outcome) ==
    IF outcome.kind = "ok"
    THEN [success |-> TRUE, data |-> outcome.body, error |-> NoError]
    ELSE [success |-> FALSE, data |-> NoBody,
          error |-> IF outcome.kind = "http"
                    THEN outcome.payload
                    ELSE [isString |-> TRUE, hasMessage |-> FALSE, message |-> "",
                          text |-> outcome.message]]

searchNews(outcome) == UniformResult(outcome)

\* Mutant of MessageOr: the server's message is never used.
MessageOrFallbackOnly(err, fallback) == fallback

\* response.error?.message || fallback
MessageOr(err, fallback) ==
    IF ~err.isString /\ err.hasMessage /\ err.message # "" THEN err.message ELSE fallback

getNewsCategories(outcome) == UniformResult(outcome)

addNewsToWorkspace(outcome) == UniformResult(outcome)

CategoryLists == { <<>>, <<"business">> }
CategoryBodies ==
    { [hasCategories |-> TRUE, categories |-> l] : l \in CategoryLists }
    \cup { [hasCategories |-> FALSE, categories |-> <<>>] }
CategoryOutcomes ==
    { [kind |-> "ok", body |-> b] : b \in CategoryBodies }
    \cup { [kind |-> "http", payload |-> p] : p \in ErrorPayloads("unavailable") }
    \cup { [kind |-> "network", message |-> TransportMessage] }

AddBodies == { [status |-> "ok"] }
AddOutcomes ==
    { [kind |-> "ok", body |-> b] : b \in AddBodies }
    \cup { [kind |-> "http", payload |-> p] : p \in ErrorPayloads(AddServerMessage) }
    \cup { [kind |-> "network", message |-> TransportMessage] }

\* ------------------------------------------------------------- initial state
\* The state after mount: the useState initial values, the persisted active
\* workspace already read, the categories request issued.
EmptyMap == [k \in {} |-> FALSE]
NoCall == [to |-> "none"]
NoReturn == [op |-> "none"]

Init ==
    /\ query = <<>>
    /\ category = ""
    /\ language = "en"
    /\ articles = <<>>
    /\ loading = FALSE
    /\ error = ""
    /\ successMessage = NoMessage
    /\ categories = <<>>
    /\ addedArticles = {}
    /\ activeWorkspace \in Workspaces
    /\ isAdding = EmptyMap
    /\ searchReqs = <<>>
    /\ addReqs = <<>>
    /\ catReq = TRUE
    /\ timers = <<>>
    /\ succeeded = {}
    /\ lastCall = NoCall
    /\ lastReturn = NoReturn

\* --------------------------------------------------------------- the form
searchState == << articles, loading, error, searchReqs >>
addState == << successMessage, addedArticles, isAdding, addReqs, timers, succeeded >>

SetQuery(q) ==
    /\ q # query
    /\ query' = q
    /\ lastCall' = NoCall
    /\ UNCHANGED << lastReturn, category, language, categories, activeWorkspace, catReq,
                    searchState, addState >>

SetCategory(c) ==
    /\ c # category
    /\ category' = c
    /\ lastCall' = NoCall
    /\ UNCHANGED << lastReturn, query, language, categories, activeWorkspace, catReq,
                    searchState, addState >>

SetLanguage(l) ==
    /\ l # language
    /\ language' = l
    /\ lastCall' = NoCall
    /\ UNCHANGED << lastReturn, query, category, categories, activeWorkspace, catReq,
                    searchState, addState >>

\* ------------------------------------------------------------ loadCategories
\* response.data.categories || []
\* Mutant of CategoriesOf: the returned categories are dropped.
CategoriesOfDropped(response) ==
    <<>>

CategoriesOf(response) ==
    IF response.data.hasCategories THEN response.data.categories ELSE <<>>

LoadCategoriesSettle(outcome) ==
    /\ catReq
    /\ catReq' = FALSE
    /\ LET response == getNewsCategories(outcome)
       IN  categories' = IF response.success THEN CategoriesOf(response) ELSE categories
    /\ lastCall' = NoCall
    /\ UNCHANGED << lastReturn, query, category, language, activeWorkspace, searchState, addState >>

\* -------------------------------------------------------------- handleSearch
\* if (!query.trim()) { setError(...); return; }
handleSearchBlank ==
    /\ trim(query) = <<>>
    /\ error' = MSG_EMPTY_QUERY
    /\ lastCall' = NoCall
    /\ UNCHANGED << lastReturn, query, category, language, articles, loading, searchReqs,
                    categories, activeWorkspace, catReq, addState >>

\* The request body searchNews posts.
SearchRequest(q, c, l, pageSize) ==
    [query |-> q, category |-> c, language |-> l, page_size |-> pageSize]

\* Mutant of handleSearchSubmit: the request is issued without setLoading(true).
handleSearchSubmitKeepsLoading ==
    /\ trim(query) # <<>>
    /\ Len(searchReqs) + Len(addReqs) < MaxInFlight
    /\ error' = ""
    /\ articles' = <<>>
    /\ searchReqs' =
         Append([i \in 1..Len(searchReqs) |-> [searchReqs[i] EXCEPT !.alone = FALSE]],
                [alone |-> searchReqs = <<>>])
    /\ lastCall' = [to |-> "/news/search",
                    body |-> SearchRequest(query, CategoryOrNull(category), language,
                                           PAGE_SIZE)]
    /\ UNCHANGED << lastReturn, loading, query, category, language, categories,
                    activeWorkspace, catReq, addState >>

\* setLoading(true); setError(""); setArticles([]); searchNews(...) is called.
handleSearchSubmit ==
    /\ trim(query) # <<>>
    /\ Len(searchReqs) + Len(addReqs) < MaxInFlight
    /\ loading' = TRUE
    /\ error' = ""
    /\ articles' = <<>>
    /\ searchReqs' =
         Append([i \in 1..Len(searchReqs) |-> [searchReqs[i] EXCEPT !.alone = FALSE]],
                [alone |-> searchReqs = <<>>])
    /\ lastCall' = [to |-> "/news/search",
                    body |-> SearchRequest(query, CategoryOrNull(category), language,
                                           PAGE_SIZE)]
    /\ UNCHANGED << lastReturn, query, category, language, categories, activeWorkspace, catReq,
                    addState >>

\* The synchronous part of handleSearch: one of its two branches.
handleSearch == handleSearchBlank \/ handleSearchSubmit

\* Mutant of SearchArticles: the articles received are added to the list held.
SearchArticlesAppended(response, old) ==
    IF response.success /\ ~response.data.null /\ response.data.hasArticles
    THEN old \o response.data.articles
    ELSE old

\* What the continuation of handleSearch leaves in articles.
\*   success, data null        : response.data.articles throws before setArticles
\*   success, articles missing : setArticles([]), then .length throws
\*   success                   : setArticles(response.data.articles)
\*   failure                   : articles are not touched
SearchArticles(response, old) ==
    IF ~response.success THEN old
    ELSE IF response.data.null THEN old
    ELSE IF response.data.hasArticles THEN response.data.articles
    ELSE <<>>

\* Mutant of SearchError: an empty result is not reported.
SearchErrorSilentOnEmpty(response, old) ==
    IF ~response.success THEN MessageOr(response.error, MSG_SEARCH_FAILED)
    ELSE IF response.data.null \/ ~response.data.hasArticles THEN MSG_SEARCH_THREW
    ELSE old

\* What the continuation of handleSearch leaves in error.
SearchError(response, old) ==
    IF ~response.success THEN MessageOr(response.error, MSG_SEARCH_FAILED)
    ELSE IF response.data.null \/ ~response.data.hasArticles THEN MSG_SEARCH_THREW
    ELSE IF Len(response.data.articles) = 0 THEN MSG_NO_RESULTS
    ELSE old

\* Mutant of SearchLoading: loading is cleared at the end of the try block
\* instead of in finally, so a throw while handling the response skips it.
SearchLoadingNotInFinally(response) ==
    response.success /\ (response.data.null \/ ~response.data.hasArticles)

\* finally { setLoading(false); }
SearchLoading(response) == FALSE

RemoveAt(s, i) == SubSeq(s, 1, i - 1) \o SubSeq(s, i + 1, Len(s))

\* Mutant of SearchSettle: the continuation also starts a fresh AddedSet.
SearchSettleResetsAdded(i, outcome) ==
    /\ i \in 1..Len(searchReqs)
    /\ LET response == searchNews(outcome)
       IN  /\ articles' = SearchArticles(response, articles)
           /\ error' = SearchError(response, error)
           /\ loading' = SearchLoading(response)
    /\ searchReqs' = RemoveAt(searchReqs, i)
    /\ addedArticles' = {}
    /\ lastCall' = NoCall
    /\ UNCHANGED << lastReturn, query, category, language, categories, activeWorkspace, catReq,
                    successMessage, isAdding, addReqs, timers, succeeded >>

SearchSettle(i, outcome) ==
    /\ i \in 1..Len(searchReqs)
    /\ LET response == searchNews(outcome)
       IN  /\ articles' = SearchArticles(response, articles)
           /\ error' = SearchError(response, error)
           /\ loading' = SearchLoading(response)
    /\ searchReqs' = RemoveAt(searchReqs, i)
    /\ lastCall' = NoCall
    /\ UNCHANGED << lastReturn, query, category, language, categories, activeWorkspace, catReq,
                    addState >>

\* ------------------------------------------------------ handleAddToWorkspace
\* Mutant of handleAddNoWorkspace: the pending flag is set before the guard.
handleAddNoWorkspaceMarksPending(article) ==
    /\ ~activeWorkspace.present
    /\ isAdding' = Spread(isAdding, articleKey(article), TRUE)
    /\ error' = MSG_NO_WORKSPACE
    /\ successMessage' = NoMessage
    /\ lastCall' = NoCall
    /\ UNCHANGED << lastReturn, query, category, language, articles, loading, searchReqs,
                    categories, activeWorkspace, catReq, addedArticles,
                    addReqs, timers, succeeded >>

\* if (!activeWorkspace) { setError(...); setSuccessMessage(""); return; }
handleAddNoWorkspace(article) ==
    /\ ~activeWorkspace.present
    /\ error' = MSG_NO_WORKSPACE
    /\ successMessage' = NoMessage
    /\ lastCall' = NoCall
    /\ UNCHANGED << lastReturn, query, category, language, articles, loading, searchReqs,
                    categories, activeWorkspace, catReq, addedArticles, isAdding,
                    addReqs, timers, succeeded >>

\* The article record addNewsToWorkspace posts (the fields this model keeps).
AddRequest(article, workspace) ==
    [title |-> article.title, url |-> article.url, workspace_name |-> workspace.name]

\* setIsAdding({...isAdding, [articleKey]: true}); setError("");
\* setSuccessMessage(""); addNewsToWorkspace(...) is called.  The closure keeps
\* the isAdding, addedArticles and activeWorkspace of the render it was made in.
handleAddStart(article) ==
    /\ activeWorkspace.present
    /\ Len(searchReqs) + Len(addReqs) < MaxInFlight
    /\ isAdding' = Spread(isAdding, articleKey(article), TRUE)
    /\ error' = ""
    /\ successMessage' = NoMessage
    /\ addReqs' = Append(addReqs,
                         [article |-> article,
                          key |-> articleKey(article),
                          isAdding |-> isAdding,
                          addedArticles |-> addedArticles,
                          activeWorkspace |-> activeWorkspace])
    /\ lastCall' = [to |-> "/news/add-to-workspace",
                    body |-> AddRequest(article, activeWorkspace)]
    /\ UNCHANGED << lastReturn, query, category, language, articles, loading, searchReqs,
                    categories, activeWorkspace, catReq, addedArticles, timers,
                    succeeded >>

\* The synchronous part of handleAddToWorkspace: one of its two branches.
handleAddToWorkspace(article) == handleAddNoWorkspace(article) \/ handleAddStart(article)

\* Mutant of AddAdded: the identifier is added whatever the response.
AddAddedUnconditionally(req, response, current) == req.addedArticles \cup {req.key}

\* setAddedArticles(new Set([...addedArticles, articleKey])) on success only;
\* addedArticles is the closure's.
AddAdded(req, response, current) ==
    IF response.success THEN req.addedArticles \cup {req.key} ELSE current

\* setSuccessMessage(...) on success, setSuccessMessage("") otherwise.
AddSuccessMessage(req, response) ==
    IF response.success
    THEN AddedMessage(req.article.title, req.activeWorkspace.name)
    ELSE NoMessage

\* Mutant of AddError: a failure always shows the fixed text.
AddErrorFixedText(response) ==
    IF response.success THEN "" ELSE MSG_ADD_FAILED

\* setError("") on success, the server's message or the fallback otherwise.
AddError(response) ==
    IF response.success THEN "" ELSE MessageOr(response.error, MSG_ADD_FAILED)

\* finally { setIsAdding({...isAdding, [articleKey]: false}); }
\* isAdding is the closure's.
AddIsAdding(req, current) == Spread(req.isAdding, req.key, FALSE)

\* Mutant of AddTimers: no clear is scheduled.
AddTimersNotScheduled(req, response, current) == current

\* setTimeout(() => setSuccessMessage(""), 3000) on success.
AddTimers(req, response, current) ==
    IF response.success
    THEN Append(current, [delay |-> CLEAR_DELAY])
    ELSE current

\* The continuation of handleAddToWorkspace.  addNewsToWorkspace never rejects
\* and the try block reads nothing but response.success, so the catch block
\* is never entered; it would set what the failure branch sets.
AddSettle(i, outcome) ==
    /\ i \in 1..Len(addReqs)
    /\ LET req == addReqs[i]
           response == addNewsToWorkspace(outcome)
       IN  /\ response.success => Len(timers) < MaxTimers
           /\ addedArticles' = AddAdded(req, response, addedArticles)
           /\ successMessage' = AddSuccessMessage(req, response)
           /\ error' = AddError(response)
           /\ isAdding' = AddIsAdding(req, isAdding)
           /\ timers' = AddTimers(req, response, timers)
           /\ succeeded' = IF response.success THEN succeeded \cup {req.key} ELSE succeeded
           /\ lastCall' = NoCall
    /\ addReqs' = RemoveAt(addReqs, i)
    /\ UNCHANGED << lastReturn, query, category, language, articles, loading, searchReqs,
                    categories, activeWorkspace, catReq >>

\* ------------------------------------------------------------------ timers
\* Every pending setTimeout has the same delay, so the callbacks run in the
\* order they were scheduled; the oldest runs when its delay has elapsed.
\* () => setSuccessMessage("")
TimerFire ==
    /\ timers # <<>>
    /\ successMessage' = NoMessage
    /\ timers' = Tail(timers)
    /\ lastCall' = NoCall
    /\ UNCHANGED << lastReturn, query, category, language, categories, activeWorkspace, catReq,
                    searchState, addedArticles, isAdding, addReqs, succeeded >>

\* ------------------------------------------------------------ specifications
\* What the render enables (the controls' disabled attributes).
InputsEnabled == ~loading
SearchButtonEnabled == ~(loading \/ trim(query) = <<>>)
Rendered(article) == ~loading /\ \E i \in 1..Len(articles) : articles[i] = article
AddButtonEnabled(article) ==
    /\ Rendered(article)
    /\ ~(articleKey(article) \in addedArticles
         \/ Pending(isAdding, articleKey(article))
         \/ ~activeWorkspace.present)
CategoryOptions == {""} \cup { categories[i] : i \in 1..Len(categories) }

TypeQuery(q) == InputsEnabled /\ SetQuery(q)
SelectCategory(c) == InputsEnabled /\ c \in CategoryOptions /\ SetCategory(c)
SelectLanguage(l) == InputsEnabled /\ SetLanguage(l)
ClickSearch == SearchButtonEnabled /\ handleSearchSubmit
ClickAdd(a) == AddButtonEnabled(a) /\ handleAddStart(a)

\* The screen as the user drives it: handlers run only through controls that
\* are rendered and not disabled.
Next ==
    \/ \E q \in Queries : TypeQuery(q)
    \/ \E c \in CategoryValues : SelectCategory(c)
    \/ \E l \in Languages : SelectLanguage(l)
    \/ ClickSearch
    \/ \E a \in Articles : ClickAdd(a)
    \/ \E o \in CategoryOutcomes : LoadCategoriesSettle(o)
    \/ \E i \in 1..MaxInFlight, o \in SearchOutcomes : SearchSettle(i, o)
    \/ \E i \in 1..MaxInFlight, o \in AddOutcomes : AddSettle(i, o)
    \/ TimerFire

Spec == Init /\ [][Next]_vars

\* handleSearch invoked directly, whatever the controls show (its own guard
\* only), with the form and the categories request.
NextSearch ==
    \/ \E q \in Queries : SetQuery(q)
    \/ \E c \in CategoryValues : SetCategory(c)
    \/ \E l \in Languages : SetLanguage(l)
    \/ handleSearch
    \/ \E o \in CategoryOutcomes : LoadCategoriesSettle(o)
    \/ \E i \in 1..MaxInFlight, o \in SearchOutcomes : SearchSettle(i, o)

SpecSearch == Init /\ [][NextSearch]_vars

\* Every issued search request settles.
FairSearch ==
    SpecSearch
    /\ WF_vars(\E i \in 1..MaxInFlight, o \in SearchOutcomes : SearchSettle(i, o))

\* handleAddToWorkspace invoked directly, for any article, whatever the
\* controls show (its own guard only).
NextAdd ==
    \/ \E a \in Articles : handleAddNoWorkspace(a)
    \/ \E a \in Articles : handleAddStart(a)
    \/ \E i \in 1..MaxInFlight, o \in AddOutcomes : AddSettle(i, o)
    \/ TimerFire

SpecAdd == Init /\ [][NextAdd]_vars

\* The News Client operations called on their own, with any arguments and any
\* outcome of the outbound call; what each returns is recorded.
CallSearchNews(q, c, l, outcome) ==
    /\ lastCall' = [to |-> "/news/search", body |-> SearchRequest(q, c, l, PAGE_SIZE)]
    /\ lastReturn' = [op |-> "searchNews", outcome |-> outcome,
                      result |-> searchNews(outcome)]
    /\ UNCHANGED << query, category, language, categories, activeWorkspace, catReq,
                    searchState, addState >>

CallGetNewsCategories(outcome) ==
    /\ lastCall' = [to |-> "/news/categories"]
    /\ lastReturn' = [op |-> "getNewsCategories", outcome |-> outcome,
                      result |-> getNewsCategories(outcome)]
    /\ UNCHANGED << query, category, language, categories, activeWorkspace, catReq,
                    searchState, addState >>

CallAddNewsToWorkspace(article, workspace, outcome) ==
    /\ lastCall' = [to |-> "/news/add-to-workspace", body |-> AddRequest(article, workspace)]
    /\ lastReturn' = [op |-> "addNewsToWorkspace", outcome |-> outcome,
                      result |-> addNewsToWorkspace(outcome)]
    /\ UNCHANGED << query, category, language, categories, activeWorkspace, catReq,
                    searchState, addState >>

NextClient ==
    \/ \E q \in Queries, c \in CategoryValues, l \in Languages, o \in SearchOutcomes :
          CallSearchNews(q, CategoryOrNull(c), l, o)
    \/ \E o \in CategoryOutcomes : CallGetNewsCategories(o)
    \/ \E a \in Articles, w \in Workspaces \ {NoWorkspace}, o \in AddOutcomes :
          CallAddNewsToWorkspace(a, w, o)

SpecClient == Init /\ [][NextClient]_vars

\* =================================================================== claims
InFlight(key) == \E i \in 1..Len(addReqs) : addReqs[i].key = key

\* C1: once an article identifier is in AddedSet it is in AddedSet in every
\* later state (no step removes an identifier from addedArticles).
C1_AddedStaysAdded ==
    [][\A k \in Keys : k \in addedArticles => k \in addedArticles']_vars

\* C2: starting an add for one identifier, or the settling of an add for it,
\* leaves the pending flag of every other identifier as it was.
C2_PendingFlagsIndependent ==
    [][/\ \A a \in Articles :
            handleAddStart(a) =>
                \A k \in Keys \ {articleKey(a)} :
                    Pending(isAdding', k) = Pending(isAdding, k)
       /\ \A i \in 1..Len(addReqs), o \in AddOutcomes :
            AddSettle(i, o) =>
                \A k \in Keys \ {addReqs[i].key} :
                    Pending(isAdding', k) = Pending(isAdding, k)]_vars

\* C3: an identifier that has no add request in flight has its pending flag
\* unset (false or absent).
C3_PendingOnlyWhileInFlight ==
    \A k \in Keys : ~InFlight(k) => ~Pending(isAdding, k)

\* C4: every identifier in AddedSet is one whose add request has returned a
\* successful response.
C4_AddedOnlyAfterSuccess == addedArticles \subseteq succeeded

\* C4 witness: one add has succeeded and another has failed; only the first
\* identifier is in AddedSet.
C4_Witness ==
    /\ addedArticles = {"https://a"}
    /\ succeeded = {"https://a"}
    /\ error = AddServerMessage
    /\ addReqs = <<>>

\* C5: the error message and the success message are never both non-empty.
C5_OneMessageAtATime == ~(error # "" /\ successMessage # NoMessage)

\* A query that is empty after trimming: nothing but whitespace.
AllBlank(s) == \A i \in 1..Len(s) : IsSpace(s[i])

\* C6: a submission whose query is empty after trimming sets the error to the
\* fixed validation message, issues no request, and leaves loading and the
\* article list as they were.
C6_BlankQueryRejected ==
    [][(handleSearch /\ AllBlank(query)) =>
          /\ error' = MSG_EMPTY_QUERY
          /\ searchReqs' = searchReqs
          /\ lastCall' = NoCall
          /\ loading' = loading
          /\ articles' = articles]_vars

\* C6 witness: a whitespace-only query was submitted while a search was in
\* flight; the validation message is shown and loading is still set.
C6_Witness ==
    /\ query = <<" ">>
    /\ error = MSG_EMPTY_QUERY
    /\ loading
    /\ searchReqs # <<>>

\* C7: every settling of a search request clears loading, and when every
\* issued request settles, loading set is always followed by loading cleared.
C7_LoadingEventuallyCleared ==
    /\ [][\A i \in 1..Len(searchReqs), o \in SearchOutcomes :
            SearchSettle(i, o) => ~loading']_vars
    /\ (loading ~> ~loading)

\* C7 witness: a request settled with an exception while its response was
\* handled, and loading is cleared.
C7_Witness ==
    /\ error = MSG_SEARCH_THREW
    /\ ~loading
    /\ searchReqs = <<>>

\* A successful search response that carries a list of articles.
HasArticleList(o) == o.kind = "ok" /\ ~o.body.null /\ o.body.hasArticles

\* C8: after a successful response with N >= 1 articles is applied, the list
\* held is exactly those articles in the order received, and the response
\* sets no error message.
C8_ResultsReplaceList ==
    [][\A i \in 1..Len(searchReqs), o \in SearchOutcomes :
          (HasArticleList(o) /\ Len(o.body.articles) >= 1 /\ SearchSettle(i, o)) =>
              /\ articles' = o.body.articles
              /\ error' = error]_vars

\* C8 witness: two articles are held in the order the response gave them.
C8_Witness ==
    /\ articles = << [url |-> "", title |-> "B"], [url |-> "https://a", title |-> "A"] >>
    /\ ~loading
    /\ error = ""

\* C9: after a successful response with zero articles is applied, the error
\* is the fixed "no results" message and the list held is empty.
C9_EmptyResultIsError ==
    [][\A i \in 1..Len(searchReqs), o \in SearchOutcomes :
          (HasArticleList(o) /\ Len(o.body.articles) = 0 /\ SearchSettle(i, o)) =>
              /\ error' = MSG_NO_RESULTS
              /\ articles' = <<>>]_vars

\* C9 witness: the "no results" message is shown over an empty list.
C9_Witness ==
    /\ error = MSG_NO_RESULTS
    /\ articles = <<>>
    /\ ~loading

\* The message a failed call shows: the server's when its payload has one.
FailureMessage(o, fallback) ==
    IF o.kind = "http" /\ o.payload.hasMessage /\ o.payload.message # ""
    THEN o.payload.message
    ELSE fallback

\* C10 (as claimed): after a failed search response is applied, the error is
\* the server's message or the fixed fallback, and the list held is empty.
C10_FailureLeavesEmptyList ==
    [][\A i \in 1..Len(searchReqs), o \in SearchOutcomes :
          (o.kind # "ok" /\ SearchSettle(i, o)) =>
              /\ error' = FailureMessage(o, MSG_SEARCH_FAILED)
              /\ articles' = <<>>]_vars

\* C10 (amended): after a failed search response is applied, the error is
\* the server's message or the fixed fallback, and the list held is what it
\* was before the response; it is empty when no other search request was in
\* flight between the submission of this request and its response.
C10_FailureLeavesListAsItWas ==
    [][\A i \in 1..Len(searchReqs), o \in SearchOutcomes :
          (o.kind # "ok" /\ SearchSettle(i, o)) =>
              /\ error' = FailureMessage(o, MSG_SEARCH_FAILED)
              /\ articles' = articles
              /\ (searchReqs[i].alone => articles' = <<>>)]_vars

\* C10 witness: a lone request failed with a server message; the message is
\* shown over an empty list.
C10_Witness ==
    /\ error = SearchServerMessage
    /\ articles = <<>>
    /\ ~loading
    /\ searchReqs = <<>>

\* C11: an add action invoked while no active workspace is set issues no add
\* request, sets the error to the fixed "select a workspace first" warning,
\* and leaves AddedSet and PendingMap as they were.
C11_NoWorkspaceBlocksAdd ==
    [][\A a \in Articles :
          (handleAddToWorkspace(a) /\ activeWorkspace = NoWorkspace) =>
              /\ error' = MSG_NO_WORKSPACE
              /\ addReqs' = addReqs
              /\ lastCall' = NoCall
              /\ addedArticles' = addedArticles
              /\ isAdding' = isAdding]_vars

\* C11 witness: with no workspace, an add was invoked; the warning is shown
\* and nothing is pending, added or in flight.
C11_Witness ==
    /\ activeWorkspace = NoWorkspace
    /\ error = MSG_NO_WORKSPACE
    /\ addReqs = <<>>
    /\ isAdding = EmptyMap
    /\ addedArticles = {}

\* C12: after a failed add response is applied, the error is the server's
\* message or the fixed fallback, the success message is empty, and AddedSet
\* is exactly what it was before the response.
C12_AddFailureShowsError ==
    [][\A i \in 1..Len(addReqs), o \in AddOutcomes :
          (o.kind # "ok" /\ AddSettle(i, o)) =>
              /\ error' = FailureMessage(o, MSG_ADD_FAILED)
              /\ successMessage' = NoMessage
              /\ addedArticles' = addedArticles]_vars

\* C12 witness: an add failed with "duplicate entry" after another article had
\* been added; the message is shown and AddedSet still holds that article only.
C12_Witness ==
    /\ error = AddServerMessage
    /\ successMessage = NoMessage
    /\ addedArticles = {"B"}
    /\ "https://a" \in DOMAIN isAdding
    /\ addReqs = <<>>

\* C13: after a successful add response is applied, the article's identifier
\* is in AddedSet, the success message names the article's title and the
\* workspace's name, and a clear is scheduled after the fixed delay; a clear
\* that runs leaves the message empty, and a message is shown only while the
\* clear scheduled with it is still pending.
C13_AddSuccessShownThenCleared ==
    /\ [][\A i \in 1..Len(addReqs), o \in AddOutcomes :
            (o.kind = "ok" /\ AddSettle(i, o)) =>
                /\ addReqs[i].key \in addedArticles'
                /\ addReqs[i].key = articleKey(addReqs[i].article)
                /\ successMessage' = AddedMessage(addReqs[i].article.title,
                                                  activeWorkspace.name)
                /\ timers' = Append(timers, [delay |-> CLEAR_DELAY])]_vars
    /\ [][TimerFire => successMessage' = NoMessage]_vars
    /\ [](successMessage # NoMessage => timers # <<>>)

\* C13 witness: "https://a" was added and the clear scheduled by that add
\* has run: the identifier is in AddedSet and no message is shown.
C13_Witness ==
    /\ addedArticles = {"https://a"}
    /\ isAdding = Spread(EmptyMap, "https://a", FALSE)
    /\ successMessage = NoMessage
    /\ error = ""
    /\ timers = <<>>
    /\ addReqs = <<>>

\* C14: whatever the outbound call does, a News Client operation returns a
\* result: {success: true, data} with the response body when the call
\* succeeded, and otherwise {success: false, error} with the server's error
\* payload when a response was received and the transport error's message
\* when none was.
C14_ClientReturnsUniformResult ==
    lastReturn.op # "none" =>
        LET o == lastReturn.outcome
            r == lastReturn.result
        IN  IF o.kind = "ok"
            THEN r.success /\ r.data = o.body
            ELSE /\ ~r.success
                 /\ IF o.kind = "http"
                    THEN r.error = o.payload
                    ELSE r.error.isString /\ r.error.text = o.message

\* C14 witness: addNewsToWorkspace was called and no response arrived; it
\* returned a failure carrying the transport error's message.
C14_Witness ==
    /\ lastReturn.op = "addNewsToWorkspace"
    /\ lastReturn.outcome.kind = "network"
    /\ ~lastReturn.result.success
    /\ lastReturn.result.error.text = TransportMessage

\* C15: when the category fetch made on mount fails, the category list stays
\* empty and the error message, the loading flag and the article list are
\* left as they were; when it succeeds, the category list becomes the returned
\* categories, or the empty list when the body has no such field.
C15_CategoryFetchOnMount ==
    [][\A o \in CategoryOutcomes :
          LoadCategoriesSettle(o) =>
              /\ error' = error /\ loading' = loading /\ articles' = articles
              /\ categories' = IF o.kind = "ok" /\ o.body.hasCategories
                               THEN o.body.categories
                               ELSE <<>>]_vars

\* C15 witness: the fetch succeeded while a search was in flight; the
\* categories are listed and the search state is untouched.
C15_Witness ==
    /\ ~catReq
    /\ categories # <<>>
    /\ loading
    /\ searchReqs # <<>>
    /\ error = ""

\* C16: an auto-clear scheduled by an earlier successful add never clears a
\* success message set by a later successful add before that later add's own
\* delay has elapsed.  A shown message was set by the latest success, whose
\* timer is the last one pending; the callback that runs is the oldest, so it
\* is that add's own only when it is the one timer pending.
C16_StaleClearSuperseded ==
    [][(TimerFire /\ successMessage # NoMessage) => Len(timers) = 1]_vars

\* C17: every submission whose trimmed query is non-empty clears the error
\* message and the article list, sets loading, and issues exactly one search
\* request, which carries the current query, the current category (null when
\* none is selected), the current language and page size 20.
C17_SubmissionIssuesOneSearch ==
    [][(handleSearch /\ ~AllBlank(query)) =>
          /\ error' = ""
          /\ articles' = <<>>
          /\ loading'
          /\ Len(searchReqs') = Len(searchReqs) + 1
          /\ lastCall' = [to |-> "/news/search",
                          body |-> [query |-> query,
                                    category |-> IF category = "" THEN "null" ELSE category,
                                    language |-> language,
                                    page_size |-> 20]]]_vars

\* C17 witness: a query with a category and a language selected has just been
\* submitted.
C17_Witness ==
    /\ lastCall.to = "/news/search"
    /\ lastCall.body.query = <<" ", "a", " ">>
    /\ lastCall.body.category = "business"
    /\ lastCall.body.language = "es"
    /\ lastCall.body.page_size = PAGE_SIZE
    /\ loading
    /\ articles = <<>>
    /\ Len(searchReqs) = 1

\* C18 as stated: in every reachable state in which at least one search
\* request is in flight, loading is true, whatever sequence of submissions
\* handleSearch has handled.
C18_InFlightImpliesLoading ==
    searchReqs # <<>> => loading

\* C18 amended: while a search request is in flight and no other submission
\* was handled during its flight, loading is true; and while loading is true
\* the inputs and the submit control are disabled.
C18_LoneRequestImpliesLoading ==
    /\ \A i \in 1..Len(searchReqs) : searchReqs[i].alone => loading
    /\ loading => ~InputsEnabled /\ ~SearchButtonEnabled

\* C18 witness: one search request is in flight, loading is true and the
\* submit control is disabled although the query is not blank.
C18_Witness ==
    /\ searchReqs = << [alone |-> TRUE] >>
    /\ loading
    /\ ~AllBlank(query)
    /\ ~SearchButtonEnabled

\* C19: when add actions are invoked only through enabled add buttons, at most
\* one add request per identifier is in flight at any time, and no add request
\* is issued for an identifier after an add for it has succeeded, even while
\* adds for other identifiers start and settle.
C19_NoDuplicateAdd ==
    /\ [](\A k \in Keys :
             Cardinality({ i \in 1..Len(addReqs) : addReqs[i].key = k }) <= 1)
    /\ [][\A a \in Articles : ClickAdd(a) => articleKey(a) \notin succeeded]_vars

\* C20: a search submission and a search response leave AddedSet, PendingMap,
\* the active workspace and the success message unchanged, so an article that
\* was in AddedSet before is still shown as added (its add button is not
\* enabled) afterwards.
C20_SearchLeavesAddStateAlone ==
    [][(handleSearch \/ \E i \in 1..Len(searchReqs), o \in SearchOutcomes : SearchSettle(i, o)) =>
          /\ addedArticles' = addedArticles
          /\ isAdding' = isAdding
          /\ activeWorkspace' = activeWorkspace
          /\ successMessage' = successMessage
          /\ \A a \in Articles :
                articleKey(a) \in addedArticles => ~(AddButtonEnabled(a))']_vars

\* C20 witness: a search has just been submitted after an add succeeded; the
\* identifier is still in AddedSet and the success message is still shown.
C20_Witness ==
    /\ lastCall.to = "/news/search"
    /\ loading
    /\ addedArticles = {"https://a"}
    /\ successMessage # NoMessage
    /\ "https://a" \in DOMAIN isAdding

====
